---- MODULE Spec2Model ----
(***************************************************************************)
(* The SSE broker of broker/broker.go and the client of client/client.go   *)
(* (kept in src/unnamed/part_002).                                         *)
(*                                                                         *)
(* Processes: one ClientHandler invocation per h \in Handlers (it owns the *)
(* Client it creates, so a Client is named by the invocation that created  *)
(* it), one close watcher per invocation (listenForClose), and the callers *)
(* b \in Callers of Broadcast / BroadcastTo.  Every access to the registry *)
(* (a sync.Map) and every access to Client.failures is one step.           *)
(*                                                                         *)
(* Spec: the calls are made by the embedding program.  EventSpec: calls    *)
(* are also made by EventHandler.  MalformedSpec: the registry starts with *)
(* a value that is not a client.  SerialSpec: no two registrations of one  *)
(* identifier overlap, and every goroutine is scheduled fairly.            *)
(***************************************************************************)
EXTENDS Integers, Sequences, FiniteSets, TLC

\* ---------------------------------------------------------------- bounds
NumHandlers == 2
NumCallers == 2
\* ClientHandler invocations and Broadcast/BroadcastTo calls begun in one run
MaxStarted == 3

Handlers == 1..NumHandlers
Callers == 1..NumCallers

\* the tolerance values a broker is configured with (broker.New takes any
\* int): NumCallers calls fail at most NumCallers Writes on a client
Tolerances == 0..NumCallers

\* identifiers a streaming request supplies in ?id= ("" is no identifier)
RequestIds == {"", "a"}

\* xid.New().String(): a fresh identifier per created client
GeneratedId(h) == "xid" \o ToString(h)

\* every identifier a client can carry
ClientIds == (RequestIds \ {""}) \cup {GeneratedId(h) : h \in Handlers}

\* identifiers a producer addresses: the one a request can choose and one
\* nobody carries (a generated identifier is never told to anyone)
TargetIds == {"a", "9999"}

\* the payload of caller b's call: every call carries its own
Payload(b) == b

\* no client / no error / no payload
NoClient == 0

\* a registry value that is not a *client.Client
Malformed == -1
NoError == <<>>

VARIABLES
    tolerance,      \* defaultBroker.tolerance
    timeoutPositive,\* defaultBroker.timeout > 0 (time.Tick returns nil otherwise)
    clients,        \* defaultBroker.clients: id -> client (NoClient when absent)
    failures,       \* Client.failures of the client created by invocation h
    hpc,            \* ClientHandler invocation h: position
    hflusher,       \* its transport w implements http.Flusher
    hnotifier,      \* its transport w implements http.CloseNotifier
    hid,            \* its local 'id' (client.ID())
    herr,           \* the error handed to httpError, or NoError
    frames,         \* what it wrote to the transport, in order
    watcher,        \* listenForClose goroutine of invocation h
    cpc,            \* caller b: position
    cop,            \* caller b: "Broadcast" or "BroadcastTo"
    cid,            \* BroadcastTo's id argument
    cdata,          \* the data argument
    ckeys,          \* Range: the keys still to visit
    cclient,        \* the client the caller is writing to
    ctmp,           \* the value of c.failures read by c.failures++
    cout,           \* Broadcast's 'out'
    cerr,           \* the error returned, or NoError
    creq,           \* the ?id= of the EventHandler request behind the call
    cstatus,        \* the status EventHandler responded with, or NoStatus
    attempts,       \* history: the Writes of the call, <<client, ok>>
    stable,         \* history: clients registered during the whole call so far
    streak,         \* history: Writes on the client that timed out since its
                    \* creation or the last Write on it that returned nil
    overlapped      \* history: a Write on the client began during another one

hvars == <<hpc, hflusher, hnotifier, hid, herr, frames, watcher>>
cvars == <<cpc, cop, cid, cdata, ckeys, cclient, ctmp, cout, cerr, creq, cstatus,
          attempts>>
wvars == <<streak, overlapped>>
vars == <<tolerance, timeoutPositive, clients, failures, hvars, cvars,
          stable, wvars>>

\* ------------------------------------------------------- client/client.go
\* New: the identifier of the created client
NewId(id, h) == IF id = "" THEN GeneratedId(h) ELSE id

\* New: failures: 0
NewFailures == 0

\* a Write that succeeds and leaves the count as it is
WriteDeliveredKeeps(f) == f

\* Write, case c.notify <- data: c.failures = 0
WriteDelivered(f) == 0

\* a timeout that does not count
WriteTimedOutKeeps(f) == f

\* Write, case <-time.Tick(c.timeout): c.failures++ (the value stored)
WriteTimedOut(f) == f + 1

\* Write's error
TimeoutError(id) == <<"failed to write to client ", id, ", timeout exceeded">>

ShouldDisconnect(f, tol) == f >= tol

\* ------------------------------------------------------- broker/broker.go
\* a lookup that never finds a client
hasClientNever(m, id) == FALSE

\* the registry holds a client for every identifier or NoClient
hasClient(m, id) == m[id] # NoClient

addClient(m, id, c) == [m EXCEPT ![id] = c]

\* a removal that leaves the entry where it is
removeClientKeeps(m, id) == m

removeClient(m, id) == [m EXCEPT ![id] = NoClient]

\* the type assertion value.(*client.Client) succeeds
IsClient(v) == v \in Handlers

\* the registered clients
Registered(m) == {m[id] : id \in ClientIds} \ {NoClient, Malformed}

\* Broadcast line 83, BroadcastTo line 63: the errors for a malformed entry
MalformedFound(key) == <<"found malformed client with id ", key, ", disconnecting">>

MalformedError == <<"client is malformed, disconnecting">>

\* ClientHandler line 171-174: the value of 'ok' that is tested
StreamingOk(flusher, notifier) == notifier

StreamingError == <<"client does not support streaming">>

DuplicateError(id) == <<"a client with id ", id, " already exists">>

\* BroadcastTo returning nil for an identifier it does not find
UnknownErrorNil(id) == <<>>

UnknownError(id) == <<"no client with id ", id, " exists">>

\* a frame that leaves the data out
FrameBlank(data) == <<"data: ", 0, "\n\n">>

\* fmt.Fprintf(w, "data: %s\n\n", data)
Frame(data) == <<"data: ", data, "\n\n">>

\* strings.Join(out, "\n")
RECURSIVE Join(_)
Join(out) ==
    IF Len(out) = 0 THEN <<>>
    ELSE IF Len(out) = 1 THEN out[1]
    ELSE out[1] \o <<"\n">> \o Join(Tail(out))

\* an error only for more than one failure
BroadcastResultMultiple(out) == IF Len(out) > 1 THEN Join(out) ELSE <<>>

\* Broadcast line 103-107: the returned error
BroadcastResult(out) == IF Len(out) > 0 THEN Join(out) ELSE NoError

\* Broadcast line 96: out after a failed Write
AppendError(out, err) == Append(out, err)

\* the ?id= an event request carries ("" is no identifier)
Requests == {""} \cup TargetIds

\* a call that no EventHandler made
NoRequest == "-"

\* no response / http.StatusOK / http.StatusInternalServerError
NoStatus == 0
StatusOK == 200
StatusInternalServerError == 500

\* EventHandler line 136-144: the call made for a request
EventCall(rq) ==
    IF rq # "" THEN <<"BroadcastTo", rq>> ELSE <<"Broadcast", "">>

\* an EventHandler that answers 200 whatever the call returned
EventResponseOk(rq, err) == IF rq = NoRequest THEN NoStatus ELSE StatusOK

\* EventHandler line 146-151: the status of the response
EventResponse(rq, err) ==
    IF rq = NoRequest THEN NoStatus
    ELSE IF err # NoError THEN StatusInternalServerError ELSE StatusOK

\* a callback that returns false: the iteration stops
RangeStops(keys, k) == {}

\* Range's callback returns true: the iteration goes on with the other keys
RangeRest(keys, k) == keys \ {k}

\* ------------------------------------------------------------------ Init
Init ==
    /\ tolerance \in Tolerances
    /\ timeoutPositive \in BOOLEAN
    /\ clients = [id \in ClientIds \cup TargetIds |-> NoClient]
    /\ failures = [h \in Handlers |-> NewFailures]
    /\ hpc = [h \in Handlers |-> "idle"]
    /\ hflusher = [h \in Handlers |-> TRUE]
    /\ hnotifier = [h \in Handlers |-> TRUE]
    /\ hid = [h \in Handlers |-> ""]
    /\ herr = [h \in Handlers |-> NoError]
    /\ frames = [h \in Handlers |-> <<>>]
    /\ watcher = [h \in Handlers |-> "none"]
    /\ cpc = [b \in Callers |-> "idle"]
    /\ cop = [b \in Callers |-> ""]
    /\ cid = [b \in Callers |-> ""]
    /\ cdata = [b \in Callers |-> 0]
    /\ ckeys = [b \in Callers |-> {}]
    /\ cclient = [b \in Callers |-> NoClient]
    /\ ctmp = [b \in Callers |-> 0]
    /\ cout = [b \in Callers |-> <<>>]
    /\ cerr = [b \in Callers |-> NoError]
    /\ creq = [b \in Callers |-> NoRequest]
    /\ cstatus = [b \in Callers |-> NoStatus]
    /\ attempts = [b \in Callers |-> <<>>]
    /\ stable = [b \in Callers |-> {}]
    /\ streak = [h \in Handlers |-> 0]
    /\ overlapped = [h \in Handlers |-> FALSE]

\* a change of the registry, seen by the calls that are running
Running(b) == cpc[b] \notin {"idle", "done"}

\* the invocations and calls begun so far
Started ==
    Cardinality({h \in Handlers : hpc[h] # "idle"})
        + Cardinality({b \in Callers : cpc[b] # "idle"})

\* invocations are alike, and so are calls: the one with the smaller number
\* begins first
NextHandler(h) == hpc[h] = "idle" /\ \A g \in Handlers : g < h => hpc[g] # "idle"

NextCaller(b) == cpc[b] = "idle" /\ \A d \in Callers : d < b => cpc[d] # "idle"

\* a call is inside Client.Write on client c
Writing(c) ==
    \E d \in Callers : cpc[d] \in {"write", "delivered", "incr"} /\ cclient[d] = c

\* Client.Write is entered on client c
WriteBegins(c) ==
    overlapped' = [overlapped EXCEPT ![c] = overlapped[c] \/ Writing(c)]

\* the identifier of client c (Client.ID())
ID(c) == hid[c]

StoreClients(m) ==
    /\ clients' = m
    /\ stable' = [b \in Callers |->
                    IF Running(b) THEN stable[b] \cap Registered(m) ELSE stable[b]]

config == <<tolerance, timeoutPositive>>

\* --------------------------------------------------------- ClientHandler
\* line 171-181: the transport is not accepted
HandlerUnsupported(h) ==
    /\ NextHandler(h)
    /\ Started < MaxStarted
    /\ \E fl \in BOOLEAN, nt \in BOOLEAN :
        /\ ~StreamingOk(fl, nt)
        /\ hflusher' = [hflusher EXCEPT ![h] = fl]
        /\ hnotifier' = [hnotifier EXCEPT ![h] = nt]
    /\ herr' = [herr EXCEPT ![h] = StreamingError]
    /\ hpc' = [hpc EXCEPT ![h] = "done"]
    /\ UNCHANGED <<config, clients, failures, hid, frames, watcher, cvars, stable>>
    /\ UNCHANGED wvars

\* line 171-200: the transport is accepted, the client is created and its
\* identifier is looked up
HandlerConnect(h) ==
    /\ NextHandler(h)
    /\ Started < MaxStarted
    /\ \E id \in RequestIds, fl \in BOOLEAN, nt \in BOOLEAN :
        /\ StreamingOk(fl, nt)
        /\ hflusher' = [hflusher EXCEPT ![h] = fl]
        /\ hnotifier' = [hnotifier EXCEPT ![h] = nt]
        /\ hid' = [hid EXCEPT ![h] = NewId(id, h)]
        /\ failures' = [failures EXCEPT ![h] = NewFailures]
        /\ IF hasClient(clients, NewId(id, h))
           THEN /\ herr' = [herr EXCEPT ![h] = DuplicateError(NewId(id, h))]
                /\ hpc' = [hpc EXCEPT ![h] = "done"]
           ELSE /\ herr' = herr
                /\ hpc' = [hpc EXCEPT ![h] = "add"]
    /\ UNCHANGED <<config, clients, frames, watcher, cvars, stable>>
    /\ UNCHANGED wvars

\* line 202-207: defer removeClient, addClient, go listenForClose
HandlerAdd(h) ==
    /\ hpc[h] = "add"
    /\ StoreClients(addClient(clients, hid[h], h))
    /\ watcher' = [watcher EXCEPT ![h] = "waiting"]
    /\ hpc' = [hpc EXCEPT ![h] = "loop"]
    /\ UNCHANGED <<config, failures, hflusher, hnotifier, hid, herr, frames, cvars>>
    /\ UNCHANGED wvars

\* line 210: for b.hasClient(id)
HandlerLoop(h) ==
    /\ hpc[h] = "loop"
    /\ hpc' = [hpc EXCEPT ![h] = IF hasClient(clients, hid[h]) THEN "select" ELSE "unwind"]
    /\ UNCHANGED <<config, clients, failures, hflusher, hnotifier, hid, herr, frames,
                   watcher, cvars, stable>>
    /\ UNCHANGED wvars

\* line 219: case <-time.Tick(b.timeout); a nil channel never delivers
HandlerTick(h) ==
    /\ hpc[h] = "select"
    /\ timeoutPositive
    /\ hpc' = [hpc EXCEPT ![h] = "loop"]
    /\ UNCHANGED <<config, clients, failures, hflusher, hnotifier, hid, herr, frames,
                   watcher, cvars, stable>>
    /\ UNCHANGED wvars

\* line 202: the deferred removeClient(id), on return and on panic
HandlerUnwind(h) ==
    /\ hpc[h] \in {"unwind", "panic"}
    /\ StoreClients(removeClient(clients, hid[h]))
    /\ hpc' = [hpc EXCEPT ![h] = IF hpc[h] = "panic" THEN "panicked" ELSE "done"]
    /\ UNCHANGED <<config, failures, hflusher, hnotifier, hid, herr, frames, watcher,
                   cvars>>
    /\ UNCHANGED wvars

\* listenForClose: <-notify, removeClient(id)
WatcherClose(h) ==
    /\ watcher[h] = "waiting"
    /\ StoreClients(removeClient(clients, hid[h]))
    /\ watcher' = [watcher EXCEPT ![h] = "done"]
    /\ UNCHANGED <<config, failures, hpc, hflusher, hnotifier, hid, herr, frames,
                   cvars>>
    /\ UNCHANGED wvars

\* ------------------------------------------------ Broadcast, BroadcastTo
\* a BroadcastTo that swallows the error of the Write
WriteResultNil(ok, id) == NoError

\* the error a finished Write hands to BroadcastTo's caller (line 66)
WriteResult(ok, id) == IF ok THEN NoError ELSE TimeoutError(id)

\* Broadcast line 72-76: Range starts over the keys of the registry; rq is
\* the request of the EventHandler that makes the call, or NoRequest
BroadcastStart(b, rq) ==
    /\ NextCaller(b)
    /\ Started < MaxStarted
    /\ creq' = [creq EXCEPT ![b] = rq]
    /\ cdata' = [cdata EXCEPT ![b] = Payload(b)]
    /\ cop' = [cop EXCEPT ![b] = "Broadcast"]
    /\ ckeys' = [ckeys EXCEPT ![b] = {id \in ClientIds : hasClient(clients, id)}]
    /\ stable' = [stable EXCEPT ![b] = Registered(clients)]
    /\ cpc' = [cpc EXCEPT ![b] = "range"]
    /\ UNCHANGED <<config, clients, failures, hvars, cid, cclient, ctmp, cout,
                   cerr, cstatus, attempts>>
    /\ UNCHANGED wvars

\* Broadcast called by the program that embeds the broker
Broadcast(b) == BroadcastStart(b, NoRequest)

\* line 76-77: Range hands the next key, with the value it holds now, to the
\* callback; a key deleted in the meantime is passed over
RangeNext(b) ==
    /\ cpc[b] = "range"
    /\ \E k \in ckeys[b] :
        /\ IsClient(clients[k]) \/ ~hasClient(clients, k)
        /\ ckeys' = [ckeys EXCEPT ![b] = RangeRest(ckeys[b], k)]
        /\ IF hasClient(clients, k)
           THEN /\ cclient' = [cclient EXCEPT ![b] = clients[k]]
                /\ cpc' = [cpc EXCEPT ![b] = "write"]
                /\ WriteBegins(clients[k])
           ELSE UNCHANGED <<cclient, cpc, overlapped>>
    /\ UNCHANGED <<config, clients, failures, hvars, cop, cid, cdata, ctmp, cout,
                   cerr, creq, cstatus, attempts, stable, streak>>

\* line 102-107: Range is over, the errors are joined; EventHandler line
\* 146-151 when it made the call
RangeEnd(b) ==
    /\ cpc[b] = "range"
    /\ ckeys[b] = {}
    /\ cerr' = [cerr EXCEPT ![b] = BroadcastResult(cout[b])]
    /\ cstatus' = [cstatus EXCEPT ![b] =
                      EventResponse(creq[b], BroadcastResult(cout[b]))]
    /\ cpc' = [cpc EXCEPT ![b] = "done"]
    /\ UNCHANGED <<config, clients, failures, hvars, cop, cid, cdata, ckeys,
                   cclient, ctmp, cout, creq, attempts, stable>>
    /\ UNCHANGED wvars

\* BroadcastTo line 53-57: no client with this id; EventHandler line 146-151
\* when it made the call
BroadcastToUnknownStart(b, id, rq) ==
    /\ NextCaller(b)
    /\ Started < MaxStarted
    /\ ~hasClient(clients, id)
    /\ creq' = [creq EXCEPT ![b] = rq]
    /\ cid' = [cid EXCEPT ![b] = id]
    /\ cdata' = [cdata EXCEPT ![b] = Payload(b)]
    /\ cerr' = [cerr EXCEPT ![b] = UnknownError(id)]
    /\ cstatus' = [cstatus EXCEPT ![b] = EventResponse(rq, UnknownError(id))]
    /\ cop' = [cop EXCEPT ![b] = "BroadcastTo"]
    /\ cpc' = [cpc EXCEPT ![b] = "done"]
    /\ UNCHANGED <<config, clients, failures, hvars, ckeys, cclient, ctmp, cout,
                   attempts, stable>>
    /\ UNCHANGED wvars

\* BroadcastTo called by the program that embeds the broker, unknown id
BroadcastToUnknown(b) ==
    \E id \in TargetIds : BroadcastToUnknownStart(b, id, NoRequest)

\* BroadcastTo line 53-66: the client is loaded and written to
BroadcastToFoundStart(b, id, rq) ==
    /\ NextCaller(b)
    /\ Started < MaxStarted
    /\ hasClient(clients, id)
    /\ IsClient(clients[id])
    /\ creq' = [creq EXCEPT ![b] = rq]
    /\ cid' = [cid EXCEPT ![b] = id]
    /\ cdata' = [cdata EXCEPT ![b] = Payload(b)]
    /\ cclient' = [cclient EXCEPT ![b] = clients[id]]
    /\ cop' = [cop EXCEPT ![b] = "BroadcastTo"]
    /\ stable' = [stable EXCEPT ![b] = Registered(clients)]
    /\ cpc' = [cpc EXCEPT ![b] = "write"]
    /\ WriteBegins(clients[id])
    /\ UNCHANGED <<config, clients, failures, hvars, ckeys, ctmp, cout, cerr,
                   cstatus, attempts, streak>>

\* BroadcastTo called by the program that embeds the broker, known id
BroadcastToFound(b) ==
    \E id \in TargetIds : BroadcastToFoundStart(b, id, NoRequest)

\* Broadcast line 77-88: the value Range hands to the callback is not a
\* *client.Client: the error is kept, the key is deleted, and the callback
\* goes on to client.Write(data) with the nil client of the failed assertion,
\* whose c.notify is a nil pointer dereference; the panic ends the call
RangeMalformed(b) ==
    /\ cpc[b] = "range"
    /\ \E k \in ckeys[b] :
        /\ hasClient(clients, k)
        /\ ~IsClient(clients[k])
        /\ ckeys' = [ckeys EXCEPT ![b] = RangeRest(ckeys[b], k)]
        /\ cout' = [cout EXCEPT ![b] = AppendError(cout[b], MalformedFound(k))]
        /\ StoreClients(removeClient(clients, k))
    /\ cpc' = [cpc EXCEPT ![b] = "panicked"]
    /\ UNCHANGED <<config, failures, hvars, cop, cid, cdata, cclient, ctmp, cerr,
                   creq, cstatus, attempts>>
    /\ UNCHANGED wvars

\* BroadcastTo line 53-64: the value loaded is not a *client.Client
BroadcastToMalformed(b) ==
    /\ NextCaller(b)
    /\ Started < MaxStarted
    /\ \E id \in TargetIds :
        /\ hasClient(clients, id)
        /\ ~IsClient(clients[id])
        /\ cid' = [cid EXCEPT ![b] = id]
        /\ StoreClients(removeClient(clients, id))
    /\ cdata' = [cdata EXCEPT ![b] = Payload(b)]
    /\ cerr' = [cerr EXCEPT ![b] = MalformedError]
    /\ cop' = [cop EXCEPT ![b] = "BroadcastTo"]
    /\ cpc' = [cpc EXCEPT ![b] = "done"]
    /\ UNCHANGED <<config, failures, hvars, ckeys, cclient, ctmp, cout, creq,
                   cstatus, attempts>>
    /\ UNCHANGED wvars

\* EventHandler line 125-144: the body is read (a failed read goes to
\* httpError at once), the id is taken from the query, and BroadcastTo or
\* Broadcast is called; the response is given where the call returns
EventHandler(b) ==
    \E rq \in Requests, readOk \in BOOLEAN :
        IF ~readOk
        THEN /\ NextCaller(b)
             /\ Started < MaxStarted
             /\ creq' = [creq EXCEPT ![b] = rq]
             /\ cstatus' = [cstatus EXCEPT ![b] = StatusInternalServerError]
             /\ cpc' = [cpc EXCEPT ![b] = "done"]
             /\ UNCHANGED <<config, clients, failures, hvars, cop, cid, cdata,
                            ckeys, cclient, ctmp, cout, cerr, attempts, stable,
                            wvars>>
        ELSE IF EventCall(rq)[1] = "BroadcastTo"
             THEN \/ BroadcastToUnknownStart(b, EventCall(rq)[2], rq)
                  \/ BroadcastToFoundStart(b, EventCall(rq)[2], rq)
             ELSE BroadcastStart(b, rq)

\* Client.Write, case c.notify <- data, with ClientHandler line 213-215: the
\* handler of the client, waiting in its select, receives the payload, writes
\* the frame and flushes; Flush on a nil Flusher panics
WriteSend(b) ==
    /\ cpc[b] = "write"
    /\ LET h == cclient[b] IN
        /\ hpc[h] = "select"
        /\ frames' = [frames EXCEPT ![h] = Append(frames[h], Frame(cdata[b]))]
        /\ hpc' = [hpc EXCEPT ![h] = IF hflusher[h] THEN "loop" ELSE "panic"]
    /\ cpc' = [cpc EXCEPT ![b] = "delivered"]
    /\ UNCHANGED <<config, clients, failures, hflusher, hnotifier, hid, herr, watcher, cop, cid,
                   cdata, ckeys, cclient, ctmp, cout, cerr, creq, cstatus,
                   attempts, stable>>
    /\ UNCHANGED wvars

\* Client.Write line 59-60: c.failures = 0, return nil
WriteReturn(b) ==
    /\ cpc[b] = "delivered"
    /\ LET c == cclient[b] IN
        /\ failures' = [failures EXCEPT ![c] = WriteDelivered(failures[c])]
        /\ streak' = [streak EXCEPT ![c] = 0]
        /\ attempts' = [attempts EXCEPT ![b] = Append(attempts[b], <<c, TRUE>>)]
        /\ IF cop[b] = "BroadcastTo"
           THEN /\ cerr' = [cerr EXCEPT ![b] = WriteResult(TRUE, ID(c))]
                /\ cstatus' = [cstatus EXCEPT ![b] =
                                  EventResponse(creq[b], WriteResult(TRUE, ID(c)))]
                /\ cpc' = [cpc EXCEPT ![b] = "done"]
           ELSE /\ cerr' = cerr
                /\ cstatus' = cstatus
                /\ cpc' = [cpc EXCEPT ![b] = "range"]
    /\ UNCHANGED <<config, clients, hvars, cop, cid, cdata, ckeys, cclient, ctmp,
                   cout, creq, stable, overlapped>>

\* Client.Write line 61-62: the tick arrives, c.failures is read
WriteTimeout(b) ==
    /\ cpc[b] = "write"
    /\ timeoutPositive
    /\ ctmp' = [ctmp EXCEPT ![b] = failures[cclient[b]]]
    /\ cpc' = [cpc EXCEPT ![b] = "incr"]
    /\ UNCHANGED <<config, clients, failures, hvars, cop, cid, cdata, ckeys,
                   cclient, cout, cerr, creq, cstatus, attempts, stable>>
    /\ UNCHANGED wvars

\* Client.Write line 62-63: c.failures is stored, the error is returned
WriteFail(b) ==
    /\ cpc[b] = "incr"
    /\ LET c == cclient[b] IN
        /\ failures' = [failures EXCEPT ![c] = WriteTimedOut(ctmp[b])]
        /\ streak' = [streak EXCEPT ![c] = streak[c] + 1]
        /\ ctmp' = [ctmp EXCEPT ![b] = 0]
        /\ attempts' = [attempts EXCEPT ![b] = Append(attempts[b], <<c, FALSE>>)]
        /\ IF cop[b] = "BroadcastTo"
           THEN /\ cerr' = [cerr EXCEPT ![b] = WriteResult(FALSE, ID(c))]
                /\ cstatus' = [cstatus EXCEPT ![b] =
                                  EventResponse(creq[b], WriteResult(FALSE, ID(c)))]
                /\ cpc' = [cpc EXCEPT ![b] = "done"]
           ELSE /\ cerr' = cerr
                /\ cstatus' = cstatus
                /\ cpc' = [cpc EXCEPT ![b] = "failed"]
    /\ UNCHANGED <<config, clients, hvars, cop, cid, cdata, ckeys, cclient, cout,
                   creq, stable, overlapped>>

\* Broadcast line 92: client.ShouldDisconnect(); line 96 when it is false
BroadcastCheck(b) ==
    /\ cpc[b] = "failed"
    /\ LET c == cclient[b] IN
        IF ShouldDisconnect(failures[c], tolerance)
        THEN /\ cpc' = [cpc EXCEPT ![b] = "evict"]
             /\ cout' = cout
        ELSE /\ cpc' = [cpc EXCEPT ![b] = "range"]
             /\ cout' = [cout EXCEPT ![b] = AppendError(cout[b], TimeoutError(ID(c)))]
    /\ UNCHANGED <<config, clients, failures, hvars, cop, cid, cdata, ckeys,
                   cclient, ctmp, cerr, creq, cstatus, attempts, stable>>
    /\ UNCHANGED wvars

\* Broadcast line 93-96: b.removeClient(client.ID()), then the error is kept
BroadcastEvict(b) ==
    /\ cpc[b] = "evict"
    /\ LET c == cclient[b] IN
        /\ StoreClients(removeClient(clients, ID(c)))
        /\ cout' = [cout EXCEPT ![b] = AppendError(cout[b], TimeoutError(ID(c)))]
    /\ cpc' = [cpc EXCEPT ![b] = "range"]
    /\ UNCHANGED <<config, failures, hvars, cop, cid, cdata, ckeys, cclient, ctmp,
                   cerr, creq, cstatus, attempts>>
    /\ UNCHANGED wvars

\* ------------------------------------------------------------------ Next
Next ==
    \/ \E h \in Handlers : HandlerUnsupported(h)
    \/ \E h \in Handlers : HandlerConnect(h)
    \/ \E h \in Handlers : HandlerAdd(h)
    \/ \E h \in Handlers : HandlerLoop(h)
    \/ \E h \in Handlers : HandlerTick(h)
    \/ \E h \in Handlers : HandlerUnwind(h)
    \/ \E h \in Handlers : WatcherClose(h)
    \/ \E b \in Callers : Broadcast(b)
    \/ \E b \in Callers : RangeNext(b)
    \/ \E b \in Callers : RangeEnd(b)
    \/ \E b \in Callers : BroadcastToUnknown(b)
    \/ \E b \in Callers : BroadcastToFound(b)
    \/ \E b \in Callers : WriteSend(b)
    \/ \E b \in Callers : WriteReturn(b)
    \/ \E b \in Callers : WriteTimeout(b)
    \/ \E b \in Callers : WriteFail(b)
    \/ \E b \in Callers : BroadcastCheck(b)
    \/ \E b \in Callers : BroadcastEvict(b)

Spec == Init /\ [][Next]_vars

\* the scheduler runs every goroutine that can take a step; when a transport
\* closes and when requests arrive is up to the environment
HandlerStep(h) ==
    HandlerAdd(h) \/ HandlerLoop(h) \/ HandlerTick(h) \/ HandlerUnwind(h)

CallerStep(b) ==
    \/ RangeNext(b) \/ RangeEnd(b) \/ WriteSend(b) \/ WriteReturn(b)
    \/ WriteTimeout(b) \/ WriteFail(b) \/ BroadcastCheck(b) \/ BroadcastEvict(b)

\* the runs in which no invocation looks up its identifier (line 195) while
\* another one, with the same identifier, is between its own lookup and its
\* addClient (line 203): every registration finds the identifier free
Adding(h) == hpc[h] = "add"

NoTwoAdding ==
    \A h \in Handlers, g \in Handlers :
        (h # g /\ Adding(h) /\ Adding(g)) => hid[h] # hid[g]

SerialConnect(h) == HandlerConnect(h) /\ NoTwoAdding'

SerialNext ==
    \/ \E h \in Handlers : HandlerUnsupported(h)
    \/ \E h \in Handlers : SerialConnect(h)
    \/ \E h \in Handlers : HandlerAdd(h)
    \/ \E h \in Handlers : HandlerLoop(h)
    \/ \E h \in Handlers : HandlerTick(h)
    \/ \E h \in Handlers : HandlerUnwind(h)
    \/ \E h \in Handlers : WatcherClose(h)
    \/ \E b \in Callers : Broadcast(b)
    \/ \E b \in Callers : RangeNext(b)
    \/ \E b \in Callers : RangeEnd(b)
    \/ \E b \in Callers : BroadcastToUnknown(b)
    \/ \E b \in Callers : BroadcastToFound(b)
    \/ \E b \in Callers : WriteSend(b)
    \/ \E b \in Callers : WriteReturn(b)
    \/ \E b \in Callers : WriteTimeout(b)
    \/ \E b \in Callers : WriteFail(b)
    \/ \E b \in Callers : BroadcastCheck(b)
    \/ \E b \in Callers : BroadcastEvict(b)

\* the broker with its event endpoint in use: calls are made by the
\* embedding program and by EventHandler
EventNext ==
    \/ Next
    \/ \E b \in Callers : EventHandler(b)

EventSpec == Init /\ [][EventNext]_vars

\* a broker whose registry holds, under "a", a value that is not a
\* *client.Client (the case line 79-86 and line 59-64 provide for; addClient
\* itself stores nothing but clients)
MalformedInit ==
    /\ tolerance \in Tolerances
    /\ timeoutPositive \in BOOLEAN
    /\ clients = [id \in ClientIds \cup TargetIds |->
                    IF id = "a" THEN Malformed ELSE NoClient]
    /\ failures = [h \in Handlers |-> NewFailures]
    /\ hpc = [h \in Handlers |-> "idle"]
    /\ hflusher = [h \in Handlers |-> TRUE]
    /\ hnotifier = [h \in Handlers |-> TRUE]
    /\ hid = [h \in Handlers |-> ""]
    /\ herr = [h \in Handlers |-> NoError]
    /\ frames = [h \in Handlers |-> <<>>]
    /\ watcher = [h \in Handlers |-> "none"]
    /\ cpc = [b \in Callers |-> "idle"]
    /\ cop = [b \in Callers |-> ""]
    /\ cid = [b \in Callers |-> ""]
    /\ cdata = [b \in Callers |-> 0]
    /\ ckeys = [b \in Callers |-> {}]
    /\ cclient = [b \in Callers |-> NoClient]
    /\ ctmp = [b \in Callers |-> 0]
    /\ cout = [b \in Callers |-> <<>>]
    /\ cerr = [b \in Callers |-> NoError]
    /\ creq = [b \in Callers |-> NoRequest]
    /\ cstatus = [b \in Callers |-> NoStatus]
    /\ attempts = [b \in Callers |-> <<>>]
    /\ stable = [b \in Callers |-> {}]
    /\ streak = [h \in Handlers |-> 0]
    /\ overlapped = [h \in Handlers |-> FALSE]

MalformedNext ==
    \/ Next
    \/ \E b \in Callers : RangeMalformed(b)
    \/ \E b \in Callers : BroadcastToMalformed(b)

MalformedSpec == MalformedInit /\ [][MalformedNext]_vars

SerialSpec ==
    /\ Init /\ [][SerialNext]_vars
    /\ \A h \in Handlers : WF_vars(HandlerStep(h))
    /\ \A b \in Callers : WF_vars(CallerStep(b))

\* ------------------------------------------------------------ properties
\* invocation h has created its client in this step (client.New, line 191)
Created(h) == hid[h] = "" /\ hid'[h] # ""

\* invocation h has registered and has not left its main loop
InMainLoop(h) == hpc[h] \in {"loop", "select"}

\* invocation h has returned (or its panic has unwound it)
Returned(h) == hpc[h] \in {"done", "panicked"}

\* C1: an invocation whose identifier is already in the registry hands the
\* duplicate-identifier error to the error handler and returns; it starts no
\* watcher, it is not registered, and the registry is left as it was, so the
\* client registered first is still the one the identifier leads to.
C1_DuplicateRejected ==
    [][\A h \in Handlers :
        (Created(h) /\ clients[hid'[h]] # NoClient) =>
            /\ herr'[h] = <<"a client with id ", hid'[h], " already exists">>
            /\ hpc'[h] = "done"
            /\ watcher'[h] = "none"
            /\ clients' = clients
            /\ clients'[hid'[h]] # h]_vars

\* C1 witness: an invocation was rejected as a duplicate of "a" while another
\* invocation's client is registered under "a".
C1_Witness ==
    \E h \in Handlers, g \in Handlers :
        /\ h # g
        /\ hpc[h] = "done"
        /\ herr[h] = <<"a client with id ", "a", " already exists">>
        /\ clients["a"] = g

\* every transport handed to ClientHandler so far has both capabilities; C2 to
\* C5 are stated for such transports, so that what refutes them is no
\* consequence of a handler that panics in Flush
AllStreaming == \A h \in Handlers : hflusher[h] /\ hnotifier[h]

\* C2: a registry entry is never overwritten by another client: of the
\* invocations with one identifier, only one registers.
C2_NoOverwrite ==
    [][\A id \in ClientIds :
        (AllStreaming' /\ clients[id] # NoClient) =>
            clients'[id] \in {clients[id], NoClient}]_vars

\* C3: once the client of an invocation in its main loop is no longer the one
\* the registry holds, the invocation eventually returns (stated for a
\* positive timeout, with which the select of the main loop cannot block).
C3_RemovedHandlerReturns ==
    \A h \in Handlers :
        (timeoutPositive /\ AllStreaming /\ InMainLoop(h) /\ clients[hid[h]] # h)
            ~> (Returned(h) \/ ~AllStreaming)

\* C4: the registry entry of a client is deleted only by its own watcher, by
\* its own handler's deferred cleanup, or by a Broadcast that evicts this very
\* client.
C4_RemovedByOwnCause ==
    [][\A id \in ClientIds :
        (AllStreaming' /\ clients[id] # NoClient /\ clients'[id] = NoClient) =>
            LET c == clients[id] IN
                \/ watcher[c] = "waiting" /\ watcher'[c] = "done"
                \/ hpc[c] \in {"unwind", "panic"} /\ hpc'[c] \in {"done", "panicked"}
                \/ \E b \in Callers :
                    /\ cpc[b] = "evict" /\ cpc'[b] # "evict"
                    /\ cclient[b] = c]_vars

\* C5: a step of Broadcast takes a client out of the registry only if it is
\* the client whose Write just timed out with the failure count at the
\* tolerance, and after that step such a client is not registered.
C5_EvictedIffTolerance ==
    [][\A b \in Callers :
        (AllStreaming' /\ cop[b] = "Broadcast" /\ cpc'[b] # cpc[b]) =>
            /\ \A c \in Registered(clients) \ Registered(clients') :
                cpc[b] = "evict" /\ c = cclient[b]
            /\ cpc[b] = "evict" => cclient[b] \notin Registered(clients')]_vars

\* the number of Writes the call of b has made on client c
AttemptsOn(b, c) ==
    Cardinality({i \in 1..Len(attempts[b]) : attempts[b][i][1] = c})

\* C6: when Broadcast returns it has made exactly one Write on every client
\* that was registered during the whole call, and it never makes two Writes
\* on a client.
C6_EveryClientAttemptedOnce ==
    \A b \in Callers :
        cop[b] = "Broadcast" =>
            /\ \A c \in Handlers : AttemptsOn(b, c) <= 1
            /\ cpc[b] = "done" => \A c \in stable[b] : AttemptsOn(b, c) = 1

\* C6 witness: a Broadcast has returned after two Writes, the first of which
\* failed, and the client of the second was registered all along.
C6_Witness ==
    \E b \in Callers :
        /\ cop[b] = "Broadcast" /\ cpc[b] = "done"
        /\ Len(attempts[b]) = 2
        /\ attempts[b][1][2] = FALSE
        /\ attempts[b][2][1] \in stable[b]

\* the failed Writes of the call of b, in the order they were made
FailedAttempts(b) == SelectSeq(attempts[b], LAMBDA a : ~a[2])

\* C7: Broadcast returns no error exactly when no Write failed; otherwise the
\* error is the failure messages of the failed Writes, one each, in the order
\* of the iteration, with a newline between two of them.
C7_AggregateError ==
    \A b \in Callers :
        (cop[b] = "Broadcast" /\ cpc[b] = "done") =>
            LET failed == FailedAttempts(b)
                n == Len(failed)
            IN  /\ (cerr[b] = <<>>) <=> (n = 0)
                /\ n > 0 =>
                    /\ Len(cerr[b]) = 4 * n - 1
                    /\ \A i \in 1..n :
                        SubSeq(cerr[b], 4 * i - 3, 4 * i - 1) =
                            <<"failed to write to client ", hid[failed[i][1]],
                              ", timeout exceeded">>
                    /\ \A i \in 1..(n - 1) : cerr[b][4 * i] = "\n"

\* C7 witness: a Broadcast has returned the joined messages of two failed
\* Writes.
C7_Witness ==
    \E b \in Callers :
        /\ cop[b] = "Broadcast" /\ cpc[b] = "done"
        /\ Len(FailedAttempts(b)) = 2
        /\ Len(cerr[b]) = 7

\* C8: BroadcastTo with an identifier the registry does not hold returns the
\* unknown-client error without a Write, and changes neither the registry nor
\* any failure count.
C8_UnknownClient ==
    [][\A b \in Callers :
        (cpc[b] = "idle" /\ cop'[b] = "BroadcastTo" /\ clients[cid'[b]] = NoClient) =>
            /\ cerr'[b] = <<"no client with id ", cid'[b], " exists">>
            /\ cpc'[b] = "done"
            /\ attempts'[b] = <<>>
            /\ clients' = clients
            /\ failures' = failures]_vars

\* C8 witness: BroadcastTo("9999") has returned the unknown-client error while
\* a client is registered.
C8_Witness ==
    \E b \in Callers :
        /\ cop[b] = "BroadcastTo" /\ cpc[b] = "done"
        /\ cid[b] = "9999"
        /\ cerr[b] = <<"no client with id ", "9999", " exists">>
        /\ attempts[b] = <<>>
        /\ Registered(clients) # {}

\* C9: an invocation whose transport lacks Flusher or CloseNotifier is never
\* registered and never in the main loop, and when it has returned, it has
\* handed the streaming error to the error handler.
C9_UnsupportedRejected ==
    \A h \in Handlers :
        (hpc[h] # "idle" /\ (~hflusher[h] \/ ~hnotifier[h])) =>
            /\ h \notin Registered(clients)
            /\ ~InMainLoop(h)
            /\ Returned(h) => herr[h] = <<"client does not support streaming">>

\* a Write on the client of h has returned nil in this step
Delivered(h) ==
    \E b \in Callers : cpc[b] = "delivered" /\ cpc'[b] # "delivered" /\ cclient[b] = h

\* C10 as claimed: for every tolerance, ShouldDisconnect is false right after
\* the client is created and right after a Write on it succeeded.
C10_AnyTolerance ==
    [][\A h \in Handlers :
        (Created(h) \/ Delivered(h)) => ~(failures'[h] >= tolerance)]_vars

\* C10 amended: for a tolerance of at least 1, ShouldDisconnect is false right
\* after the client is created and right after a Write on it succeeded.
C10_PositiveTolerance ==
    [][\A h \in Handlers :
        (tolerance >= 1 /\ (Created(h) \/ Delivered(h))) =>
            ~(failures'[h] >= tolerance)]_vars

\* C10 witness: with a tolerance of at least 1, a Write on a client has
\* succeeded after another one had failed, and the count is back at 0.
C10_Witness ==
    \E h \in Handlers, b \in Callers, d \in Callers :
        /\ tolerance >= 1
        /\ attempts[b] = <<<<h, FALSE>>>>
        /\ attempts[d] = <<<<h, TRUE>>>>
        /\ failures[h] = 0

\* the number of frames on the transport of h that carry the data of call b
Received(b, h) ==
    Cardinality({i \in 1..Len(frames[h]) :
                    frames[h][i] = <<"data: ", cdata[b], "\n\n">>})

\* the Write of call b on client h has returned with this outcome
WriteOutcome(b, h, ok) ==
    \E i \in 1..Len(attempts[b]) : attempts[b][i] = <<h, ok>>

\* C11: a Write that returned nil has handed its data, as submitted, to the
\* consumer exactly once; a Write that returned the timeout error has handed
\* over nothing, then and ever after; no Write has both outcomes, and a frame
\* with the data of a call is there only for a Write that was handed over.
C11_WriteOneOutcome ==
    \A b \in Callers, h \in Handlers :
        cpc[b] # "idle" =>
            /\ Received(b, h) <= 1
            /\ ~(WriteOutcome(b, h, TRUE) /\ WriteOutcome(b, h, FALSE))
            /\ WriteOutcome(b, h, TRUE) => Received(b, h) = 1
            /\ WriteOutcome(b, h, FALSE) => Received(b, h) = 0
            /\ (cpc[b] = "incr" /\ cclient[b] = h) => Received(b, h) = 0
            /\ Received(b, h) = 1 =>
                \/ WriteOutcome(b, h, TRUE)
                \/ cpc[b] = "delivered" /\ cclient[b] = h
            /\ (cop[b] = "BroadcastTo" /\ cpc[b] = "done" /\ WriteOutcome(b, h, TRUE))
                => cerr[b] = <<>>
            /\ (cop[b] = "BroadcastTo" /\ cpc[b] = "done" /\ WriteOutcome(b, h, FALSE))
                => cerr[b] = <<"failed to write to client ", hid[h],
                               ", timeout exceeded">>

\* C11 witness: on one client, the Write of one call has timed out and the
\* Write of another has been handed over, and the transport holds the frame
\* of the second only.
C11_Witness ==
    \E h \in Handlers, b \in Callers, d \in Callers :
        /\ attempts[b] = <<<<h, FALSE>>>>
        /\ attempts[d] = <<<<h, TRUE>>>>
        /\ frames[h] = <<<<"data: ", cdata[d], "\n\n">>>>
        /\ Received(b, h) = 0

\* call b is inside Client.Write
InWrite(b) == cpc[b] \in {"write", "delivered", "incr"}

\* C12: every Write eventually returns, whatever the timeout the broker was
\* made with, and so does every BroadcastTo and every Broadcast (stated for
\* transports with both capabilities).
C12_WriteReturns ==
    \A b \in Callers :
        /\ (AllStreaming /\ InWrite(b)) ~> (~InWrite(b) \/ ~AllStreaming)
        /\ (AllStreaming /\ Running(b)) ~> (cpc[b] = "done" \/ ~AllStreaming)

\* the Writes on client h that have returned nil so far, over all calls
Successes(h) ==
    Cardinality({b \in Callers : WriteOutcome(b, h, TRUE)})

\* the Writes on client h that were handed over and have not returned yet
HandedOver(h) ==
    Cardinality({b \in Callers : cpc[b] = "delivered" /\ cclient[b] = h})

\* the Flush after the last frame of h has panicked (line 215)
FlushFailed(h) == hpc[h] \in {"panic", "panicked"}

\* C13: the frames on the transport of a client are the data of the Writes
\* that returned nil on it (and of those handed over that are about to), one
\* frame each, every frame flushed; and the Write that returns nil as the
\* k-th one on the client is the one whose data is in the k-th frame.
C13_FramesAreSuccesses ==
    [][\A h \in Handlers :
        /\ Len(frames'[h]) = Successes(h)' + HandedOver(h)'
        /\ ~FlushFailed(h)'
        /\ \A b \in Callers :
            (cpc[b] = "delivered" /\ cpc'[b] # "delivered" /\ cclient[b] = h) =>
                frames[h][Successes(h) + 1] = <<"data: ", cdata[b], "\n\n">>]_vars

\* C14: no step of a BroadcastTo changes the registry, and when it returns
\* after a Write it returns what the Write returned: nil after a hand-off, the
\* timeout error after a timeout, also with the failure count at the tolerance.
C14_BroadcastToKeepsClient ==
    [][\A b \in Callers :
        (cop'[b] = "BroadcastTo" /\ cpc'[b] # cpc[b]) =>
            /\ clients' = clients
            /\ (cpc[b] = "delivered" /\ cpc'[b] = "done") => cerr'[b] = <<>>
            /\ (cpc[b] = "incr" /\ cpc'[b] = "done") =>
                cerr'[b] = <<"failed to write to client ", hid[cclient[b]],
                             ", timeout exceeded">>
            /\ cpc[b] \in {"delivered", "incr"} => cpc'[b] = "done"]_vars

\* C14 witness: a BroadcastTo has returned the timeout error, the failure
\* count of its client is at the tolerance (of at least 1), and the client is
\* still registered.
C14_Witness ==
    \E b \in Callers :
        /\ cop[b] = "BroadcastTo" /\ cpc[b] = "done"
        /\ attempts[b] = <<<<cclient[b], FALSE>>>>
        /\ cerr[b] # <<>>
        /\ tolerance >= 1
        /\ failures[cclient[b]] >= tolerance
        /\ clients[hid[cclient[b]]] = cclient[b]

\* C15: a call made by EventHandler is BroadcastTo with the identifier of the
\* request when the request carries one, and Broadcast when it carries none;
\* once the call has returned, the response is 200 exactly when the call
\* returned no error and 500 (with that error handed to httpError) otherwise;
\* before that there is no response.
C15_EventHandlerDispatch ==
    \A b \in Callers :
        (creq[b] # "-" /\ cop[b] # "") =>
            /\ creq[b] # "" => (cop[b] = "BroadcastTo" /\ cid[b] = creq[b])
            /\ creq[b] = "" => cop[b] = "Broadcast"
            /\ cpc[b] = "done" =>
                /\ (cstatus[b] = 200) <=> (cerr[b] = <<>>)
                /\ (cstatus[b] = 500) <=> (cerr[b] # <<>>)
            /\ cpc[b] # "done" => cstatus[b] = 0

\* C15 witness: a request without identifier was answered 200 after a
\* Broadcast that wrote to a client, and a request for "a" was answered 500
\* after a BroadcastTo("a") whose Write timed out.
C15_Witness ==
    \E b \in Callers, d \in Callers :
        /\ creq[b] = "" /\ cop[b] = "Broadcast" /\ cpc[b] = "done"
        /\ Len(attempts[b]) = 1 /\ cstatus[b] = 200
        /\ creq[d] = "a" /\ cop[d] = "BroadcastTo" /\ cid[d] = "a"
        /\ cpc[d] = "done" /\ Len(attempts[d]) = 1 /\ cstatus[d] = 500

C17_FailureCount ==
    \A h \in Handlers :
        ~overlapped[h] =>
            /\ failures[h] = streak[h]
            /\ ShouldDisconnect(failures[h], tolerance) <=> (streak[h] >= tolerance)

\* C17 witness: two Writes on a client, one after the other, have timed out,
\* the count is 2 and, with a tolerance of 2, ShouldDisconnect is true.
C17_Witness ==
    \E h \in Handlers :
        /\ ~overlapped[h]
        /\ \A b \in Callers : attempts[b] = <<<<h, FALSE>>>>
        /\ streak[h] = 2 /\ failures[h] = 2
        /\ tolerance = 2
        /\ ShouldDisconnect(failures[h], tolerance)

\* the Writes on client h that have returned the timeout error, over all calls
FailedOn(h) ==
    Cardinality({b \in Callers : WriteOutcome(b, h, FALSE)})

\* C19: while no Write on a client has been handed over, its failure count is
\* the number of Writes on it that have timed out, also when the calls ran
\* concurrently, so ShouldDisconnect is true once that number has reached the
\* tolerance (stated for transports with both capabilities).
C19_NoLostFailure ==
    \A h \in Handlers :
        (AllStreaming /\ Successes(h) = 0 /\ HandedOver(h) = 0) =>
            /\ failures[h] = FailedOn(h)
            /\ FailedOn(h) >= tolerance => ShouldDisconnect(failures[h], tolerance)

\* invocation h has registered its client (line 203) at some point
HasRegistered(h) == watcher[h] # "none"

\* C18: once an invocation that registered a client has returned, by leaving
\* its loop or by a panic, the registry does not lead from its identifier to
\* the client it registered; and the step of an invocation that fails before
\* registering (unsupported transport, duplicate identifier) leaves the
\* registry as it was.
C18_UnregisteredOnExit ==
    [][\A h \in Handlers :
        /\ (HasRegistered(h)' /\ hpc'[h] \in {"done", "panicked"}) =>
              clients'[hid'[h]] # h
        /\ (hpc[h] = "idle" /\ hpc'[h] = "done") =>
              /\ clients' = clients
              /\ herr'[h] # <<>>
              /\ ~HasRegistered(h)']_vars

\* C18 witness: an invocation has been unwound by the panic of Flush after it
\* wrote a frame, another has returned from its loop, and the registry holds
\* neither client.
C18_Witness ==
    \E h \in Handlers, g \in Handlers :
        /\ hpc[h] = "panicked" /\ HasRegistered(h) /\ Len(frames[h]) = 1
        /\ hpc[g] = "done" /\ HasRegistered(g)
        /\ Registered(clients) = {}
====
